---- MODULE Spec2Model ----
(***************************************************************************)
(* Credit-card statement pipeline: the line parsers, the deduplicator, the *)
(* vendor classifiers and the mode-A filters of the scripts, as state      *)
(* machines over text.  A text is a sequence of one-character strings, so  *)
(* that split, strip, upper(), substring tests and the regular expressions *)
(* of the scripts are computed character by character.                     *)
(***************************************************************************)
EXTENDS Integers, Sequences, FiniteSets, TLC

VARIABLES
    stdout,               \* text the external tool (or OCR) returned for the image
    script,               \* which script's per-image step has run ("none" before)
    records,              \* the records that step produced
    transactions,         \* deduplicate_transactions: its argument
    pos,                  \* deduplicate_transactions: index of the element the loop is at
    seen,                 \* deduplicate_transactions: keys already met
    unique_transactions,  \* deduplicate_transactions: the list being built
    dedup_pc,             \* deduplicate_transactions: "loop" or "returned"
    calls,                \* completed calls of deduplicate_transactions: argument and result
    row,                  \* one CSV row: Transaction Date, Description, Amount (THB)
    stage,                \* which loop has handled the row: "filter", "summary", "sheets"
    outcome,              \* what it did with it: "kept", "dropped", "counted", "raised"
    label,                \* the service label it gave the row
    agg_script,           \* aggregation: "workflow" (generate_summary) or "brain" (save_and_summarize)
    agg_transactions,     \* aggregation: the list the loop runs over
    agg_pos,              \* aggregation: index of the element the loop is at
    service_totals,       \* aggregation: label -> [count, total], totals in hundredths
    total_amount,         \* aggregation: the running grand total, in hundredths
    total_count,          \* aggregation: the count printed on the TOTAL line
    agg_pc,               \* aggregation: "idle", "loop" or "printed"
    sheet_input,          \* format_for_google_sheets: the rows of all_transactions.csv
    sheet_pos,            \* format_for_google_sheets: index of the row the reader is at
    sheet_ai,             \* format_for_google_sheets: ai_transactions, the list being built
    sheet_csv,            \* format_for_google_sheets: rows written to the output file
    sheet_pc,             \* format_for_google_sheets: "idle", "reading", "raised", "written"
    pdf_name,             \* rasterizer: the document identifier (stem of the PDF's name)
    page_index,           \* rasterizer: page_num of its loop, the 0-based page index
    jpeg_filename,        \* rasterizer: the image name it produced
    name_script,          \* which loop has parsed the image name ("none" before)
    name_parsed,          \* the statement_id and page it recovered
    run_script,           \* end-to-end run: "batch", "workflow" or "brain"
    directory,            \* end-to-end run: names of the files in the input directory
    images,               \* end-to-end run: the image names of the loop
    idx,                  \* end-to-end run: index of the image the loop is at
    run_pc,               \* end-to-end run: position in main
    all_transactions,     \* end-to-end run: the records accumulated by the loop
    events,               \* end-to-end run: tool invocations and delays, in order
    csv,                  \* end-to-end run: the CSV files on disk, name -> data rows
    ai_transactions,      \* end-to-end run: the rows handed to the summary
    summary               \* end-to-end run: what the summary printed

aggVars == <<agg_script, agg_transactions, agg_pos, service_totals, total_amount,
             total_count, agg_pc>>

sheetVars == <<sheet_input, sheet_pos, sheet_ai, sheet_csv, sheet_pc>>

nameVars == <<pdf_name, page_index, jpeg_filename, name_script, name_parsed>>

runVars == <<run_script, directory, images, idx, run_pc, all_transactions, events, csv,
             ai_transactions, summary>>

vars == <<stdout, script, records, transactions, pos, seen, unique_transactions,
          dedup_pc, calls, row, stage, outcome, label, aggVars, sheetVars, nameVars,
          runVars>>

-----------------------------------------------------------------------------
(* Characters and the str methods the scripts use                          *)

\* the grave accent, which a TLA+ string cannot hold
Backtick == "backtick"

Digit == {"0","1","2","3","4","5","6","7","8","9"}

LowerSeq == <<"a","b","c","d","e","f","g","h","i","j","k","l","m","n","o","p","q","r","s","t","u","v","w","x","y","z">>

UpperSeq == <<"A","B","C","D","E","F","G","H","I","J","K","L","M","N","O","P","Q","R","S","T","U","V","W","X","Y","Z">>

Letter == {LowerSeq[i] : i \in 1..Len(LowerSeq)} \cup {UpperSeq[i] : i \in 1..Len(UpperSeq)}

\* \w of the re module (ASCII part)
WordChar == Letter \cup Digit \cup {"_"}

\* what str.strip() removes and \s matches
Whitespace == {" ", "\t", "\n", "\r"}

UpperChar(c) ==
    IF \E i \in 1..Len(LowerSeq) : LowerSeq[i] = c
    THEN UpperSeq[CHOOSE i \in 1..Len(LowerSeq) : LowerSeq[i] = c]
    ELSE c

\* str.upper()
upper(s) == IF s = << >> THEN << >> ELSE [i \in 1..Len(s) |-> UpperChar(s[i])]

RECURSIVE LStrip(_)
LStrip(s) == IF s # << >> /\ Head(s) \in Whitespace THEN LStrip(Tail(s)) ELSE s

RECURSIVE RStrip(_)
RStrip(s) ==
    IF s # << >> /\ s[Len(s)] \in Whitespace THEN RStrip(SubSeq(s, 1, Len(s) - 1)) ELSE s

\* str.strip()
strip(s) == RStrip(LStrip(s))

\* str.startswith
startswith(s, p) == Len(s) >= Len(p) /\ SubSeq(s, 1, Len(p)) = p

\* the `in` operator on strings, for a non-empty needle
contains(s, p) ==
    \E i \in 1..(Len(s) - Len(p) + 1) : s[i] = p[1] /\ SubSeq(s, i, i + Len(p) - 1) = p

\* str.find for one character, 1-based, 0 when absent
FirstIndex(s, c) ==
    IF \E i \in 1..Len(s) : s[i] = c
    THEN CHOOSE i \in 1..Len(s) : s[i] = c /\ \A j \in 1..(i - 1) : s[j] # c
    ELSE 0

\* str.split(sep) for a one-character separator
RECURSIVE split(_, _)
split(s, sep) ==
    LET i == FirstIndex(s, sep)
    IN  IF i = 0 THEN <<s>>
        ELSE <<SubSeq(s, 1, i - 1)>> \o split(SubSeq(s, i + 1, Len(s)), sep)

\* str.replace(c, '') for one character
RECURSIVE remove_char(_, _)
remove_char(s, c) ==
    IF s = << >> THEN << >>
    ELSE IF Head(s) = c THEN remove_char(Tail(s), c)
    ELSE <<Head(s)>> \o remove_char(Tail(s), c)

RECURSIVE ConcatAll(_)
ConcatAll(ss) == IF ss = << >> THEN << >> ELSE Head(ss) \o ConcatAll(Tail(ss))

\* '\n'.join(lines)
RECURSIVE JoinLines(_)
JoinLines(ls) ==
    IF ls = << >> THEN << >>
    ELSE IF Len(ls) = 1 THEN ls[1]
    ELSE ls[1] \o <<"\n">> \o JoinLines(Tail(ls))

\* '|'.join(segments)
RECURSIVE JoinPipe(_)
JoinPipe(segs) ==
    IF segs = << >> THEN << >>
    ELSE IF Len(segs) = 1 THEN segs[1]
    ELSE segs[1] \o <<"|">> \o JoinPipe(Tail(segs))

-----------------------------------------------------------------------------
(* Literals of the scripts                                                 *)

NO_TRANSACTIONS == <<"N","O","_","T","R","A","N","S","A","C","T","I","O","N","S">>

ERROR == <<"E","R","R","O","R">>

NO_AI == <<"N","O","_","A","I">>

Fence == <<Backtick,Backtick,Backtick>>

HeaderPrefix == <<"D","A","T","E","|","P","O","S","T","I","N","G">>

\* re.match(r'\d{2}/\d{2}/\d{2}', s): anchored at the start, anything may follow
match_date(s) ==
    /\ Len(s) >= 8
    /\ \A i \in {1, 2, 4, 5, 7, 8} : s[i] \in Digit
    /\ s[3] = "/"
    /\ s[6] = "/"

\* re.sub(r'```[\w]*\n?', '', s)
RECURSIVE DropWord(_)
DropWord(s) == IF s # << >> /\ Head(s) \in WordChar THEN DropWord(Tail(s)) ELSE s

DropNewline(s) == IF s # << >> /\ Head(s) = "\n" THEN Tail(s) ELSE s

RECURSIVE sub_fence_open(_)
sub_fence_open(s) ==
    IF s = << >> THEN << >>
    ELSE IF startswith(s, Fence)
         THEN sub_fence_open(DropNewline(DropWord(SubSeq(s, 4, Len(s)))))
         ELSE <<Head(s)>> \o sub_fence_open(Tail(s))

\* re.sub(r'\n```', '', s)
RECURSIVE sub_fence_close(_)
sub_fence_close(s) ==
    IF s = << >> THEN << >>
    ELSE IF startswith(s, <<"\n">> \o Fence)
         THEN sub_fence_close(SubSeq(s, 5, Len(s)))
         ELSE <<Head(s)>> \o sub_fence_close(Tail(s))

\* the markdown clean-up both fence-stripping scripts apply to the stripped stdout
clean_output(out) == strip(sub_fence_close(sub_fence_open(strip(out))))

-----------------------------------------------------------------------------
(* Pipe-delimited line parsers                                             *)

\* batch_extract_all.parse_transactions: the body of its loop for one line
batch_line(raw, statement_id, page_num) ==
    LET line  == strip(raw)
        parts == split(line, "|")
    IN  IF line = << >> \/ line = NO_TRANSACTIONS THEN << >>
        ELSE IF startswith(line, Fence) \/ startswith(line, HeaderPrefix) THEN << >>
        ELSE IF Len(parts) >= 4 /\ match_date(strip(parts[1]))
             THEN << [statement_id     |-> statement_id,
                      page             |-> page_num,
                      transaction_date |-> strip(parts[1]),
                      posting_date     |-> strip(parts[2]),
                      description      |-> strip(parts[3]),
                      amount           |-> strip(parts[4])] >>
             ELSE << >>

\* batch_extract_all.parse_transactions
parse_transactions(output, statement_id, page_num) ==
    IF output = << >> \/ output = NO_TRANSACTIONS \/ contains(output, ERROR)
    THEN << >>
    ELSE LET lines == split(output, "\n")
         IN  ConcatAll([i \in 1..Len(lines) |-> batch_line(lines[i], statement_id, page_num)])

\* ai_workflow.extract_transactions_with_opencode: the body of its loop for one line
workflow_line(raw, statement_id, page_num) ==
    LET line  == strip(raw)
        parts == split(line, "|")
    IN  IF contains(line, <<"|">>) /\ match_date(line) /\ Len(parts) >= 4
        THEN << [statement_id     |-> statement_id,
                 page             |-> page_num,
                 transaction_date |-> strip(parts[1]),
                 posting_date     |-> strip(parts[2]),
                 description      |-> strip(parts[3]),
                 amount           |-> strip(parts[4])] >>
        ELSE << >>

\* ai_workflow.extract_transactions_with_opencode, from the tool's stdout on
extract_transactions_with_opencode(out, statement_id, page_num) ==
    LET output == strip(out)
    IN  IF output # << >> /\ ~contains(output, NO_TRANSACTIONS)
        THEN LET lines == split(output, "\n")
             IN  ConcatAll([i \in 1..Len(lines) |->
                                workflow_line(lines[i], statement_id, page_num)])
        ELSE << >>

\* ai_workflow_brain.extract_and_identify_ai_transactions: its loop body for one line
brain_line(raw, statement_id, page_num) ==
    LET line  == strip(raw)
        parts == split(line, "|")
    IN  IF contains(line, <<"|">>) /\ Len(parts) >= 5 /\ match_date(parts[1])
        THEN << [statement_id     |-> statement_id,
                 page             |-> page_num,
                 transaction_date |-> strip(parts[1]),
                 posting_date     |-> strip(parts[2]),
                 description      |-> strip(parts[3]),
                 amount           |-> strip(parts[4]),
                 service          |-> strip(parts[5])] >>
        ELSE << >>

\* ai_workflow_brain.extract_and_identify_ai_transactions, from the tool's stdout on
extract_and_identify_ai_transactions(out, statement_id, page_num) ==
    LET output == clean_output(out)
    IN  IF output # << >> /\ ~contains(upper(output), NO_AI)
        THEN LET lines == split(output, "\n")
             IN  ConcatAll([i \in 1..Len(lines) |->
                                brain_line(lines[i], statement_id, page_num)])
        ELSE << >>

\* extract_transactions_opencode.main: the body of its inner loop for one line
opencode_line(line, statement_name) ==
    LET parts == split(line, "|")
    IN  IF contains(line, <<"|">>) /\ Len(parts) >= 4
        THEN << [statement        |-> statement_name,
                 transaction_date |-> strip(parts[1]),
                 posting_date     |-> strip(parts[2]),
                 description      |-> strip(parts[3]),
                 amount           |-> strip(parts[4])] >>
        ELSE << >>

\* extract_transactions_opencode.main, for one image, from the tool's stdout on
opencode_main_image(out, statement_name) ==
    LET result == strip(out)
    IN  IF result # << >> /\ ~startswith(result, ERROR)
        THEN LET lines == split(result, "\n")
             IN  ConcatAll([i \in 1..Len(lines) |-> opencode_line(lines[i], statement_name)])
        ELSE << >>

-----------------------------------------------------------------------------
(* Fixed-column (OCR) parser: the regular expression                        *)
(*   (\d{2}/\d{2}/\d{2,4})\s+(\d{2}/\d{2}/\d{2,4})\s+(.+?)\s+(-?[\d,]+\.\d{2}) *)
(* applied with re.match, so anchored at the start only.                   *)

At(s, i) == IF i >= 1 /\ i <= Len(s) THEN s[i] ELSE ""

\* last index of the maximal run of characters of `set` starting at i (i-1 when none)
RECURSIVE RunEnd(_, _, _)
RunEnd(s, i, set) == IF At(s, i) \in set THEN RunEnd(s, i + 1, set) ELSE i - 1

\* \d{2}/\d{2}/\d{2,4} at i, followed by white space: index of its last character,
\* 0 when it does not match. The year is greedy: 4 digits, then 3, then 2.
DateEnd(s, i) ==
    LET ok(y) == /\ \A k \in {0, 1, 3, 4} : At(s, i + k) \in Digit
                 /\ At(s, i + 2) = "/"
                 /\ At(s, i + 5) = "/"
                 /\ \A k \in 1..y : At(s, i + 5 + k) \in Digit
                 /\ At(s, i + 6 + y) \in Whitespace
    IN  IF ok(4) THEN i + 9 ELSE IF ok(3) THEN i + 8 ELSE IF ok(2) THEN i + 7 ELSE 0

\* -?[\d,]+\.\d{2} at i: index of its last character, 0 when it does not match
AmountEnd(s, i) ==
    LET j == IF At(s, i) = "-" THEN i + 1 ELSE i
        k == RunEnd(s, j, Digit \cup {","})
    IN  IF k >= j /\ At(s, k + 1) = "." /\ At(s, k + 2) \in Digit /\ At(s, k + 3) \in Digit
        THEN k + 3
        ELSE 0

\* the match object of the expression on one stripped line, or [ok |-> FALSE]
ocr_match(s) ==
    LET d1 == DateEnd(s, 1)
        w1 == RunEnd(s, d1 + 1, Whitespace)
        d2 == IF d1 = 0 THEN 0 ELSE DateEnd(s, w1 + 1)
        w2 == RunEnd(s, d2 + 1, Whitespace)
        \* (.+?) may end at e when white space and then an amount follow
        ends(e) == /\ At(s, e + 1) \in Whitespace
                   /\ AmountEnd(s, RunEnd(s, e + 1, Whitespace) + 1) # 0
        \* the \s+ before the description is greedy and gives back one at a time
        starts == {b \in (d2 + 2)..(w2 + 1) : \E e \in b..Len(s) : ends(e)}
    IN  IF d1 = 0 \/ d2 = 0 \/ starts = {} THEN [ok |-> FALSE]
        ELSE LET b == CHOOSE x \in starts : \A y \in starts : y <= x
                 e == CHOOSE x \in b..Len(s) : ends(x) /\ \A y \in b..(x - 1) : ~ends(y)
                 a == RunEnd(s, e + 1, Whitespace) + 1
             IN  [ok |-> TRUE,
                  g1 |-> SubSeq(s, 1, d1),
                  g2 |-> SubSeq(s, w1 + 1, d2),
                  g3 |-> SubSeq(s, b, e),
                  g4 |-> SubSeq(s, a, AmountEnd(s, a)),
                  last |-> AmountEnd(s, a)]

\* extract_transactions.parse_transactions: the body of its loop for one line
ocr_line(line) ==
    LET m == ocr_match(strip(line))
    IN  IF m.ok
        THEN << [transaction_date |-> m.g1,
                 posting_date     |-> m.g2,
                 description      |-> strip(m.g3),
                 amount           |-> m.g4] >>
        ELSE << >>

\* extract_transactions.parse_transactions
parse_transactions_ocr(text) ==
    LET lines == split(text, "\n")
    IN  ConcatAll([i \in 1..Len(lines) |-> ocr_line(lines[i])])

-----------------------------------------------------------------------------
(* Tool and OCR texts the parsers are run on                               *)

\* most segments of a generated pipe-delimited line
MaxSegments == 5

\* most lines of a generated multi-line output
MaxLines == 3

SampleStatement == "2511-25-01"

SamplePage == "1"

FirstSegs == { <<"1","9","/","0","5","/","2","5">>, <<"1","9","/","0","5","/","2","5"," ">>, <<"1","9","/","0","5","/","2","0","2","5">>, <<"D","A","T","E">>, <<"9","/","5","/","2","5">> }

SecondSegs == { <<"2","0","/","0","5","/","2","5">>, <<"P","O","S","T","I","N","G","_","D","A","T","E">> }

ThirdSegs == { <<"A","N","T","H","R","O","P","I","C"," ","U","S","D"," ","5",".","3","5">>, <<" ","K","T","B"," ","I","n","t","e","r","n","e","t"," ">>, <<"B","A","N","K"," ","E","R","R","O","R"," ","F","E","E">>, <<"D","E","S","C","R","I","P","T","I","O","N">> }

FourthSegs == { <<"1","8","2",".","7","0">>, <<" ","-","8",",","8","5","1",".","3","3">>, <<"A","M","O","U","N","T">> }

FifthSegs == { <<"A","n","t","h","r","o","p","i","c"," ","A","I">>, << >> }

SegChoices(k) ==
    CASE k = 1 -> FirstSegs
      [] k = 2 -> SecondSegs
      [] k = 3 -> ThirdSegs
      [] k = 4 -> FourthSegs
      [] OTHER -> FifthSegs

\* one-line outputs: 1..MaxSegments segments joined by '|'
PipeLines ==
    UNION { { JoinPipe(segs) : segs \in { f \in [1..n -> UNION {SegChoices(k) : k \in 1..n}] :
                                             \A k \in 1..n : f[k] \in SegChoices(k) } }
            : n \in 1..MaxSegments }

OcrDescriptions == { <<"S","H","O","P">>, <<"A","N","T","H","R","O","P","I","C"," ","U","S","D"," ","5",".","3","5">>, <<"A"," "," ","B">> }

OcrAmounts == { <<"1","8","2",".","7","0">>, <<"-","8",",","8","5","1",".","3","3">>, <<"1","2",".","5">>, <<"1",".","0","0","5">>, <<"T","H","B">> }

OcrTrailers == { << >>, <<" ","e","x","t","r","a">>, <<" ","7",".","0","0">> }

\* one-line OCR texts: date, date, description, a last token, possibly more text
OcrLines ==
    { d1 \o <<" ","2","0","/","0","5","/","2","5"," ">> \o desc \o <<" ">> \o amt \o trail :
        d1 \in { <<"1","9","/","0","5","/","2","5">>, <<"1","9","/","0","5","/","2","0","2","5">> },
        desc \in OcrDescriptions, amt \in OcrAmounts, trail \in OcrTrailers }

TransactionLines ==
    { <<"1","9","/","0","5","/","2","5","|","2","0","/","0","5","/","2","5","|","A","N","T","H","R","O","P","I","C"," ","U","S","D"," ","5",".","3","5","|","1","8","2",".","7","0">>,
      <<"0","7","/","0","1","/","2","5","|","0","7","/","0","1","/","2","5","|","K","T","B"," ","I","n","t","e","r","n","e","t","|","-","8",",","8","5","1",".","3","3","|","O","t","h","e","r">> }

NoiseLines ==
    { <<"H","e","r","e"," ","a","r","e"," ","t","h","e"," ","t","r","a","n","s","a","c","t","i","o","n","s",":">>,
      <<"D","A","T","E","|","P","O","S","T","I","N","G","_","D","A","T","E","|","D","E","S","C","R","I","P","T","I","O","N","|","A","M","O","U","N","T">>,
      <<Backtick,Backtick,Backtick>>,
      <<"N","o"," ","E","R","R","O","R"," ","f","o","u","n","d">>,
      <<"N","O","_","T","R","A","N","S","A","C","T","I","O","N","S">>,
      << >> }

\* multi-line outputs: 1..MaxLines lines, transaction lines and noise mixed
MultiLineOutputs ==
    UNION { { JoinLines(ls) : ls \in [1..n -> TransactionLines \cup NoiseLines] }
            : n \in 1..MaxLines }

Outputs == PipeLines \cup OcrLines \cup MultiLineOutputs

-----------------------------------------------------------------------------
(* The per-image step of each script                                       *)

\* the variables of the deduplicator, when it is not the part under study
IdleDedup ==
    /\ transactions = << >>
    /\ pos = 1
    /\ seen = {}
    /\ unique_transactions = << >>
    /\ dedup_pc = "returned"
    /\ calls = << >>

\* the variables of the classifiers, when they are not the part under study
IdleClassify ==
    /\ row = [transaction_date |-> << >>, description |-> << >>, amount |-> << >>]
    /\ stage = "none"
    /\ outcome = "none"
    /\ label = ""

\* the variables of the parsers, when they are not the part under study
IdleParse ==
    /\ stdout = << >>
    /\ script = "none"
    /\ records = << >>

parseVars == <<stdout, script, records>>

dedupVars == <<transactions, pos, seen, unique_transactions, dedup_pc, calls>>

classifyVars == <<row, stage, outcome, label>>

\* the variables of the aggregators, when they are not the part under study
IdleAggregate ==
    /\ agg_script = "none"
    /\ agg_transactions = << >>
    /\ agg_pos = 1
    /\ service_totals = << >>
    /\ total_amount = 0
    /\ total_count = 0
    /\ agg_pc = "idle"

\* the variables of the spreadsheet formatter, when it is not the part under study
IdleSheets ==
    /\ sheet_input = << >>
    /\ sheet_pos = 1
    /\ sheet_ai = << >>
    /\ sheet_csv = << >>
    /\ sheet_pc = "idle"

\* the variables of the image names, when they are not the part under study
IdleNames ==
    /\ pdf_name = << >>
    /\ page_index = 0
    /\ jpeg_filename = << >>
    /\ name_script = "none"
    /\ name_parsed = << >>

\* the variables of the end-to-end runs, when they are not the part under study
IdleRun ==
    /\ run_script = "none"
    /\ directory = {}
    /\ images = << >>
    /\ idx = 1
    /\ run_pc = "idle"
    /\ all_transactions = << >>
    /\ events = << >>
    /\ csv = << >>
    /\ ai_transactions = << >>
    /\ summary = << >>

InitParse ==
    /\ stdout \in Outputs
    /\ script = "none"
    /\ records = << >>
    /\ IdleDedup
    /\ IdleClassify
    /\ IdleAggregate /\ IdleSheets /\ IdleNames /\ IdleRun

ParseFrame == UNCHANGED <<stdout, dedupVars, classifyVars, aggVars, sheetVars, nameVars, runVars>>

\* batch_extract_all.main, for one image: extract_transactions_from_image's clean-up
\* of the tool's stdout, the two early `continue`s, then parse_transactions
BatchImage ==
    /\ script = "none"
    /\ script' = "batch"
    /\ LET result == clean_output(stdout)
       IN  records' = IF startswith(result, ERROR) \/ result = NO_TRANSACTIONS
                      THEN << >>
                      ELSE parse_transactions(result, SampleStatement, SamplePage)
    /\ ParseFrame

\* ai_workflow.extract_all_transactions: extract_transactions_with_opencode on one image
WorkflowImage ==
    /\ script = "none"
    /\ script' = "workflow"
    /\ records' = extract_transactions_with_opencode(stdout, SampleStatement, SamplePage)
    /\ ParseFrame

\* ai_workflow_brain.process_all_images: extract_and_identify_ai_transactions on one image
BrainImage ==
    /\ script = "none"
    /\ script' = "brain"
    /\ records' = extract_and_identify_ai_transactions(stdout, SampleStatement, SamplePage)
    /\ ParseFrame

\* extract_transactions_opencode.main: one image
OpencodeImage ==
    /\ script = "none"
    /\ script' = "opencode"
    /\ records' = opencode_main_image(stdout, SampleStatement)
    /\ ParseFrame

\* extract_transactions.main: parse_transactions on the OCR text of one image
OcrImage ==
    /\ script = "none"
    /\ script' = "ocr"
    /\ records' = parse_transactions_ocr(stdout)
    /\ ParseFrame

NextParse == BatchImage \/ WorkflowImage \/ BrainImage \/ OpencodeImage \/ OcrImage

SpecParse == InitParse /\ [][NextParse]_vars

-----------------------------------------------------------------------------
(* Claims about the line parsers, checked under SpecParse                  *)

PipeParsers == {"batch", "workflow", "brain"}

OneLine(out) == ~contains(out, <<"\n">>)

\* shape (a) of the specification: at least 4 segments, the first starts with a date token
ShapeA(line) ==
    LET parts == split(line, "|")
    IN  Len(parts) >= 4 /\ match_date(parts[1])

\* shape (b) of the specification: date, date, description, and an amount at line end
ShapeB(line) ==
    LET d1 == DateEnd(line, 1)
        w1 == RunEnd(line, d1 + 1, Whitespace)
        d2 == IF d1 = 0 THEN 0 ELSE DateEnd(line, w1 + 1)
        w2 == RunEnd(line, d2 + 1, Whitespace)
    IN  /\ d1 # 0
        /\ d2 # 0
        /\ \E b \in (d2 + 2)..(w2 + 1) : \E e \in b..Len(line) :
              /\ At(line, e + 1) \in Whitespace
              /\ AmountEnd(line, RunEnd(line, e + 1, Whitespace) + 1) = Len(line)

CoreFields(r) == <<r.transaction_date, r.posting_date, r.description, r.amount>>

\* C1: for a tool output that is one pipe-delimited line with at least 4 segments
\* whose first segment starts with a date token, each pipe-line parser (batch,
\* ai_workflow, ai_workflow_brain) emits exactly one record, whose four core fields
\* are segments 0..3 stripped; a fifth segment is optional.
C1_PipeLineYieldsItsSegments ==
    (script \in PipeParsers /\ OneLine(stdout) /\ ShapeA(stdout)) =>
        LET parts == split(stdout, "|")
        IN  /\ Len(records) = 1
            /\ CoreFields(records[1]) =
                   <<strip(parts[1]), strip(parts[2]), strip(parts[3]), strip(parts[4])>>

\* C2: a line that matches neither accepted shape yields no record in any
\* line-parsing variant, and every line yields exactly one record or none.
C2_OtherLinesRejected ==
    (script # "none" /\ OneLine(stdout)) =>
        /\ Len(records) <= 1
        /\ (~ShapeA(strip(stdout)) /\ ~ShapeB(strip(stdout))) => records = << >>

\* the white-space-delimited token that ends the line
LastToken(line) ==
    LET ws == {i \in 1..Len(line) : line[i] \in Whitespace}
        from == IF ws = {} THEN 1 ELSE (CHOOSE i \in ws : \A j \in ws : j <= i) + 1
    IN  SubSeq(line, from, Len(line))

IsAmountToken(t) == t # << >> /\ AmountEnd(t, 1) = Len(t)

\* C3: for a line the fixed-column parser accepts, the amount is the signed decimal
\* token with two fraction digits that ends the line and the description is all the
\* text between the posting date and that amount; a line whose last token is not
\* such an amount is rejected.
C3_AmountEndsTheLine ==
    (script = "ocr" /\ OneLine(stdout)) =>
        LET line == strip(stdout)
            last == LastToken(line)
            d1   == DateEnd(line, 1)
            d2   == DateEnd(line, RunEnd(line, d1 + 1, Whitespace) + 1)
        IN  /\ ~IsAmountToken(last) => records = << >>
            /\ records # << >> =>
                  /\ records[1].amount = last
                  /\ records[1].description =
                         strip(SubSeq(line, d2 + 1, Len(line) - Len(last)))

\* the lines of an output that have shape (a), joined again
ConformingOnly(out) ==
    JoinLines(SelectSeq(split(out, "\n"), LAMBDA l : ShapeA(strip(l))))

\* C4: the records a pipe-line parser extracts depend only on the conforming lines:
\* the output without its non-transaction lines gives the same records in the same order.
C4_NoiseLinesIgnored ==
    /\ script = "batch" =>
          records = parse_transactions(clean_output(ConformingOnly(stdout)),
                                       SampleStatement, SamplePage)
    /\ script = "workflow" =>
          records = extract_transactions_with_opencode(ConformingOnly(stdout),
                                                       SampleStatement, SamplePage)

\* where the sentinel tests do not fire and the brain variant gets its fifth segment,
\* the three parsers read a conforming line into its stripped segments
PipeLineReadWhenNoSentinel ==
    (script \in PipeParsers /\ OneLine(stdout) /\ ShapeA(stdout)
       /\ ~contains(stdout, ERROR) /\ (script = "brain" => Len(split(stdout, "|")) >= 5)) =>
        LET parts == split(stdout, "|")
        IN  /\ Len(records) = 1
            /\ CoreFields(records[1]) =
                   <<strip(parts[1]), strip(parts[2]), strip(parts[3]), strip(parts[4])>>

-----------------------------------------------------------------------------
(* batch_extract_all.deduplicate_transactions                              *)

\* most records in a list handed to the deduplicator
MaxTransactions == 3

\* most calls of the deduplicator in one behaviour (the second is on the first's result)
MaxCalls == 2

SampleRecord(sid, pg, td, pd, desc, amt) ==
    [statement_id |-> sid, page |-> pg, transaction_date |-> td,
     posting_date |-> pd, description |-> desc, amount |-> amt]

\* one record, the same line read from another page, and four that differ from it
\* in exactly one field of the key
SampleRecords ==
    { SampleRecord("2511-25-01", "1", <<"1","9","/","0","5","/","2","5">>, <<"2","0","/","0","5","/","2","5">>, <<"A","N","T","H","R","O","P","I","C">>, <<"1","8","2",".","7","0">>),
      SampleRecord("2512-25-01", "2", <<"1","9","/","0","5","/","2","5">>, <<"2","0","/","0","5","/","2","5">>, <<"A","N","T","H","R","O","P","I","C">>, <<"1","8","2",".","7","0">>),
      SampleRecord("2511-25-01", "1", <<"1","8","/","0","5","/","2","5">>, <<"2","0","/","0","5","/","2","5">>, <<"A","N","T","H","R","O","P","I","C">>, <<"1","8","2",".","7","0">>),
      SampleRecord("2511-25-01", "1", <<"1","9","/","0","5","/","2","5">>, <<"2","1","/","0","5","/","2","5">>, <<"A","N","T","H","R","O","P","I","C">>, <<"1","8","2",".","7","0">>),
      SampleRecord("2511-25-01", "1", <<"1","9","/","0","5","/","2","5">>, <<"2","0","/","0","5","/","2","5">>, <<"S","H","O","P","E","E">>, <<"1","8","2",".","7","0">>),
      SampleRecord("2511-25-01", "1", <<"1","9","/","0","5","/","2","5">>, <<"2","0","/","0","5","/","2","5">>, <<"A","N","T","H","R","O","P","I","C">>, <<"1","9","9",".","0","0">>) }

TransactionLists == UNION { [1..n -> SampleRecords] : n \in 0..MaxTransactions }

\* mutant: the key also holds the statement and the page
dedup_key_all_fields(t) ==
    <<t.statement_id, t.page, t.transaction_date, t.posting_date, t.description, t.amount>>

\* line 98: key = (transaction_date, posting_date, description, amount)
dedup_key(t) == <<t.transaction_date, t.posting_date, t.description, t.amount>>

\* mutant: a new record goes to the front of the list
dedup_body_prepend(sn, uq, t) ==
    IF dedup_key(t) \notin sn
    THEN [seen |-> sn \cup {dedup_key(t)}, unique |-> <<t>> \o uq]
    ELSE [seen |-> sn, unique |-> uq]

\* lines 96-101: the body of the loop for record t
dedup_body(sn, uq, t) ==
    IF dedup_key(t) \notin sn
    THEN [seen |-> sn \cup {dedup_key(t)}, unique |-> Append(uq, t)]
    ELSE [seen |-> sn, unique |-> uq]

InitDedup ==
    /\ transactions \in TransactionLists
    /\ pos = 1
    /\ seen = {}
    /\ unique_transactions = << >>
    /\ dedup_pc = "loop"
    /\ calls = << >>
    /\ IdleParse
    /\ IdleClassify
    /\ IdleAggregate /\ IdleSheets /\ IdleNames /\ IdleRun

\* one iteration of `for t in transactions`
DedupIterate ==
    /\ dedup_pc = "loop"
    /\ pos <= Len(transactions)
    /\ LET r == dedup_body(seen, unique_transactions, transactions[pos])
       IN  /\ seen' = r.seen
           /\ unique_transactions' = r.unique
    /\ pos' = pos + 1
    /\ UNCHANGED <<transactions, dedup_pc, calls, parseVars, classifyVars, aggVars, sheetVars, nameVars, runVars>>

\* the loop is over: return unique_transactions
DedupReturn ==
    /\ dedup_pc = "loop"
    /\ pos > Len(transactions)
    /\ dedup_pc' = "returned"
    /\ calls' = Append(calls, [argument |-> transactions, result |-> unique_transactions])
    /\ UNCHANGED <<transactions, pos, seen, unique_transactions, parseVars, classifyVars, aggVars, sheetVars, nameVars, runVars>>

\* deduplicate_transactions called on the list the last call returned
DedupAgain ==
    /\ dedup_pc = "returned"
    /\ calls # << >>
    /\ Len(calls) < MaxCalls
    /\ transactions' = calls[Len(calls)].result
    /\ pos' = 1
    /\ seen' = {}
    /\ unique_transactions' = << >>
    /\ dedup_pc' = "loop"
    /\ UNCHANGED <<calls, parseVars, classifyVars, aggVars, sheetVars, nameVars, runVars>>

NextDedup == DedupIterate \/ DedupReturn \/ DedupAgain

SpecDedup == InitDedup /\ [][NextDedup]_vars

\* the key of the specification: both dates, the description and the amount
SpecKey(t) == <<t.transaction_date, t.posting_date, t.description, t.amount>>

\* the records of `in` that have no earlier record with the same key, in order
RECURSIVE FirstOccurrences(_, _)
FirstOccurrences(in, i) ==
    IF i > Len(in) THEN << >>
    ELSE IF \E j \in 1..(i - 1) : SpecKey(in[j]) = SpecKey(in[i])
         THEN FirstOccurrences(in, i + 1)
         ELSE <<in[i]>> \o FirstOccurrences(in, i + 1)

C6_Idempotent ==
    \A c \in 2..Len(calls) :
        /\ calls[c].argument = calls[c - 1].result
        /\ calls[c].result = calls[c].argument

\* the second call has returned, on a result shorter than the first argument
C6_Witness ==
    /\ Len(calls) >= 2
    /\ Len(calls[1].result) >= 2
    /\ Len(calls[1].result) < Len(calls[1].argument)
    /\ calls[2].result = calls[1].result

-----------------------------------------------------------------------------
(* Amounts, dates and the regular expressions of the mode-A filter         *)

DigitSeq == <<"0","1","2","3","4","5","6","7","8","9">>

DigitVal(c) == (CHOOSE i \in 1..10 : DigitSeq[i] = c) - 1

RECURSIVE Pow10(_)
Pow10(n) == IF n = 0 THEN 1 ELSE 10 * Pow10(n - 1)

\* the number a sequence of digits writes
RECURSIVE DigitsValue(_)
DigitsValue(ds) ==
    IF ds = << >> THEN 0
    ELSE 10 * DigitsValue(SubSeq(ds, 1, Len(ds) - 1)) + DigitVal(ds[Len(ds)])

AllDigits(s) == \A i \in 1..Len(s) : s[i] \in Digit

\* float(text), for texts made of white space, a sign, digits and one point: the
\* value is num / 10^scale; ok is FALSE where float raises ValueError
float(text) ==
    LET t      == strip(text)
        signed == t # << >> /\ Head(t) \in {"+", "-"}
        body   == IF signed THEN Tail(t) ELSE t
        dot    == FirstIndex(body, ".")
        whole  == IF dot = 0 THEN body ELSE SubSeq(body, 1, dot - 1)
        frac   == IF dot = 0 THEN << >> ELSE SubSeq(body, dot + 1, Len(body))
        ok     == AllDigits(whole) /\ AllDigits(frac) /\ Len(whole) + Len(frac) > 0
        mag    == DigitsValue(whole) * Pow10(Len(frac)) + DigitsValue(frac)
    IN  IF ok
        THEN [ok |-> TRUE, num |-> IF signed /\ Head(t) = "-" THEN -mag ELSE mag,
              scale |-> Len(frac)]
        ELSE [ok |-> FALSE, num |-> 0, scale |-> 0]

\* float(row['Amount (THB)'].replace(',', ''))
parse_amount(text) == float(remove_char(text, ","))

DaysIn(month, year) ==
    IF month \in {4, 6, 9, 11} THEN 30
    ELSE IF month = 2 THEN (IF year % 4 = 0 /\ (year % 100 # 0 \/ year % 400 = 0) THEN 29 ELSE 28)
    ELSE 31

\* format_for_sheets.parse_date: the date, or ok = FALSE where it returns None
parse_date(date_str) ==
    LET parts == split(date_str, "/")
        year  == <<"2", "0">> \o parts[3]
        fits  == /\ Len(parts) = 3
                 /\ Len(parts[1]) \in {1, 2} /\ AllDigits(parts[1])
                 /\ Len(parts[2]) \in {1, 2} /\ AllDigits(parts[2])
                 /\ Len(year) = 4 /\ AllDigits(year)
        d     == DigitsValue(parts[1])
        m     == DigitsValue(parts[2])
        y     == DigitsValue(year)
    IN  IF fits /\ y >= 1 /\ m \in 1..12 /\ d >= 1 /\ d <= DaysIn(m, y)
        THEN [ok |-> TRUE, year |-> y, month |-> m, day |-> d]
        ELSE [ok |-> FALSE, year |-> 0, month |-> 0, day |-> 0]

\* A compiled pattern is a sequence of one-character literals, "ANY" for `.` and
\* "ANY*" for `.*`; `.` does not match a newline.
RECURSIVE MatchAt(_, _, _)
MatchAt(pat, s, i) ==
    IF pat = << >> THEN TRUE
    ELSE IF Head(pat) = "ANY*"
         THEN \E k \in i..(Len(s) + 1) :
                  /\ \A j \in i..(k - 1) : s[j] # "\n"
                  /\ MatchAt(Tail(pat), s, k)
    ELSE IF Head(pat) = "ANY"
         THEN At(s, i) \notin {"", "\n"} /\ MatchAt(Tail(pat), s, i + 1)
    ELSE At(s, i) = Head(pat) /\ MatchAt(Tail(pat), s, i + 1)

\* re.search(pattern, s) is not None
re_search(pat, s) == \E i \in 1..(Len(s) + 1) : MatchAt(pat, s, i)

-----------------------------------------------------------------------------
(* Vendor signatures and the three classifying loops                       *)

OPENROUTER == <<"O","P","E","N","R","O","U","T","E","R">>

ANTHROPIC == <<"A","N","T","H","R","O","P","I","C">>

RUNPOD == <<"R","U","N","P","O","D">>

KIE_DOT_AI == <<"K","I","E",".","A","I">>

KIE_AI == <<"K","I","E"," ","A","I">>

BUDGIEAI == <<"B","U","D","G","I","E","A","I">>

BUDGIE_AI == <<"B","U","D","G","I","E"," ","A","I">>

DIGITALOCEAN == <<"D","I","G","I","T","A","L","O","C","E","A","N">>

STRIPE == <<"S","T","R","I","P","E">>

Z_DOT_AI == <<"Z",".","A","I">>

GOOGLE == <<"G","O","O","G","L","E">>

CLOUD == <<"C","L","O","U","D">>

\* ai_workflow.filter_ai_transactions: ai_keywords, each compiled as re.search reads it
ai_keywords ==
    << OPENROUTER, ANTHROPIC, RUNPOD,
       <<"K", "I", "E", "ANY", "A", "I">>,
       KIE_AI, BUDGIEAI, BUDGIE_AI, DIGITALOCEAN,
       STRIPE \o <<"ANY*">> \o Z_DOT_AI,
       GOOGLE \o <<"ANY*">> \o CLOUD >>

\* is_ai = any(re.search(keyword, desc) for keyword in ai_keywords)
is_ai_keyword(desc) == \E k \in 1..Len(ai_keywords) : re_search(ai_keywords[k], desc)

\* mutant: zero amounts pass the expense test
filter_row_nonnegative(r) ==
    LET desc   == upper(r.description)
        amount == parse_amount(r.amount)
    IN  IF is_ai_keyword(desc) /\ amount.ok /\ amount.num >= 0 THEN "kept" ELSE "dropped"

\* ai_workflow.filter_ai_transactions: the body of its loop for one row
filter_row(r) ==
    LET desc   == upper(r.description)
        amount == parse_amount(r.amount)
    IN  IF is_ai_keyword(desc) /\ amount.ok /\ amount.num > 0 THEN "kept" ELSE "dropped"

\* mutant: the Google Cloud test moved up, as in format_for_sheets
summary_service_google_early(desc) ==
    IF contains(desc, OPENROUTER) THEN "OpenRouter AI"
    ELSE IF contains(desc, GOOGLE) /\ contains(desc, CLOUD) THEN "Google Cloud"
    ELSE IF contains(desc, ANTHROPIC) THEN "Anthropic AI"
    ELSE IF contains(desc, RUNPOD) THEN "RunPod GPU"
    ELSE IF contains(desc, KIE_DOT_AI) \/ contains(desc, KIE_AI) THEN "Kie.ai"
    ELSE IF contains(desc, BUDGIEAI) \/ contains(desc, BUDGIE_AI) THEN "BudgieAI"
    ELSE IF contains(desc, DIGITALOCEAN) THEN "DigitalOcean"
    ELSE IF contains(desc, STRIPE) /\ contains(desc, Z_DOT_AI) THEN "Z.AI Service"
    ELSE "Other AI Service"

\* ai_workflow.generate_summary: the if/elif chain on the uppercased description
summary_service(desc) ==
    IF contains(desc, OPENROUTER) THEN "OpenRouter AI"
    ELSE IF contains(desc, ANTHROPIC) THEN "Anthropic AI"
    ELSE IF contains(desc, RUNPOD) THEN "RunPod GPU"
    ELSE IF contains(desc, KIE_DOT_AI) \/ contains(desc, KIE_AI) THEN "Kie.ai"
    ELSE IF contains(desc, BUDGIEAI) \/ contains(desc, BUDGIE_AI) THEN "BudgieAI"
    ELSE IF contains(desc, DIGITALOCEAN) THEN "DigitalOcean"
    ELSE IF contains(desc, STRIPE) /\ contains(desc, Z_DOT_AI) THEN "Z.AI Service"
    ELSE IF contains(desc, GOOGLE) /\ contains(desc, CLOUD) THEN "Google Cloud"
    ELSE "Other AI Service"

\* format_for_sheets.format_for_google_sheets: the if/elif chain; "" is is_ai = False
sheets_service(desc) ==
    IF contains(desc, OPENROUTER) THEN "OpenRouter AI"
    ELSE IF contains(desc, GOOGLE) /\ contains(desc, CLOUD) THEN "Google Cloud"
    ELSE IF contains(desc, ANTHROPIC) THEN "Anthropic AI"
    ELSE IF contains(desc, RUNPOD) THEN "RunPod GPU"
    ELSE IF contains(desc, KIE_DOT_AI) \/ contains(desc, KIE_AI) THEN "Kie.ai"
    ELSE IF contains(desc, BUDGIEAI) \/ contains(desc, BUDGIE_AI) THEN "BudgieAI"
    ELSE IF contains(desc, DIGITALOCEAN) THEN "DigitalOcean"
    ELSE IF contains(desc, STRIPE) /\ contains(desc, Z_DOT_AI) THEN "Z.AI Service"
    ELSE ""

\* format_for_sheets.format_for_google_sheets: the body of its reading loop for one row
sheets_row(r) ==
    LET desc    == upper(r.description)
        amount  == parse_amount(r.amount)
        service == sheets_service(desc)
    IN  IF ~amount.ok THEN [outcome |-> "raised", label |-> ""]
        ELSE IF service # "" /\ amount.num > 0 /\ parse_date(r.transaction_date).ok
             THEN [outcome |-> "kept", label |-> service]
             ELSE [outcome |-> "dropped", label |-> ""]

-----------------------------------------------------------------------------
(* Rows the classifying loops are run on                                   *)

\* most vocabulary words in a generated description
MaxWords == 4

\* the signatures, one in mixed case, two near misses and one unrelated merchant
Vocabulary ==
    << <<"O","P","E","N","R","O","U","T","E","R">>, <<"A","n","t","h","r","o","p","i","c">>, <<"R","U","N","P","O","D">>, <<"K","I","E",".","A","I">>, <<"K","I","E"," ","A","I">>, <<"K","I","E","X","A","I">>,
       <<"B","U","D","G","I","E","A","I">>, <<"B","U","D","G","I","E"," ","A","I">>, <<"D","I","G","I","T","A","L","O","C","E","A","N">>, <<"S","T","R","I","P","E">>, <<"Z",".","A","I">>, <<"G","O","O","G","L","E">>,
       <<"C","L","O","U","D">>, <<"S","H","O","P","E","E">> >>

\* the words with the given indices, in ascending or in descending order of index
RECURSIVE JoinWords(_, _)
JoinWords(chosen, ascending) ==
    IF chosen = {} THEN << >>
    ELSE LET i == IF ascending THEN CHOOSE x \in chosen : \A y \in chosen : x <= y
                  ELSE CHOOSE x \in chosen : \A y \in chosen : x >= y
             rest == JoinWords(chosen \ {i}, ascending)
         IN  IF rest = << >> THEN Vocabulary[i] ELSE Vocabulary[i] \o <<" ">> \o rest

Descriptions ==
    { JoinWords(chosen, asc) :
        chosen \in { s \in SUBSET (1..Len(Vocabulary)) : Cardinality(s) \in 1..MaxWords },
        asc \in BOOLEAN }

SampleAmounts == { <<"1","8","2",".","7","0">>, <<"-","8",",","8","5","1",".","3","3">>, <<"0",".","0","0">>, <<"1",",","2","3","4",".","5","0">>, <<"A","M","O","U","N","T">>, << >> }

SampleDates == { <<"1","9","/","0","5","/","2","5">>, <<"1","9","/","0","5","/","2","0","2","5">> }

Rows ==
    { [transaction_date |-> <<"1","9","/","0","5","/","2","5">>, description |-> d, amount |-> <<"1","8","2",".","7","0">>] :
        d \in Descriptions }
    \cup
    { [transaction_date |-> dt, description |-> Vocabulary[i], amount |-> a] :
        dt \in SampleDates, i \in 1..Len(Vocabulary), a \in SampleAmounts }

InitClassify ==
    /\ row \in Rows
    /\ stage = "none"
    /\ outcome = "none"
    /\ label = ""
    /\ IdleParse
    /\ IdleDedup
    /\ IdleAggregate /\ IdleSheets /\ IdleNames /\ IdleRun

\* ai_workflow.filter_ai_transactions reads the row
FilterRow ==
    /\ stage = "none"
    /\ stage' = "filter"
    /\ outcome' = filter_row(row)
    /\ UNCHANGED <<row, label, parseVars, dedupVars, aggVars, sheetVars, nameVars, runVars>>

\* ai_workflow.generate_summary reaches the row: called on a list of rows, or, as
\* main does, on the rows filter_ai_transactions kept
SummaryRow ==
    /\ \/ stage = "none"
       \/ stage = "filter" /\ outcome = "kept"
    /\ stage' = "summary"
    /\ IF parse_amount(row.amount).ok
       THEN outcome' = "counted" /\ label' = summary_service(upper(row.description))
       ELSE outcome' = "raised" /\ label' = ""
    /\ UNCHANGED <<row, parseVars, dedupVars, aggVars, sheetVars, nameVars, runVars>>

\* format_for_sheets.format_for_google_sheets reads the row
SheetsRow ==
    /\ stage = "none"
    /\ stage' = "sheets"
    /\ outcome' = sheets_row(row).outcome
    /\ label' = sheets_row(row).label
    /\ UNCHANGED <<row, parseVars, dedupVars, aggVars, sheetVars, nameVars, runVars>>

NextClassify == FilterRow \/ SummaryRow \/ SheetsRow

SpecClassify == InitClassify /\ [][NextClassify]_vars

-----------------------------------------------------------------------------
(* Claims about classification and mode-A filtering, under SpecClassify    *)

TableRule(alternatives, lbl) == [alternatives |-> alternatives, label |-> lbl]

\* the priority table of the specification: a rule holds when, for one of its
\* alternatives, the uppercased description contains every substring of it
PriorityTable ==
    << TableRule({{OPENROUTER}}, "OpenRouter AI"),
       TableRule({{ANTHROPIC}}, "Anthropic AI"),
       TableRule({{RUNPOD}}, "RunPod GPU"),
       TableRule({{KIE_DOT_AI}, {KIE_AI}}, "Kie.ai"),
       TableRule({{BUDGIEAI}, {BUDGIE_AI}}, "BudgieAI"),
       TableRule({{DIGITALOCEAN}}, "DigitalOcean"),
       TableRule({{STRIPE, Z_DOT_AI}}, "Z.AI Service"),
       TableRule({{GOOGLE, CLOUD}}, "Google Cloud") >>

RulesMet(desc) ==
    { i \in 1..Len(PriorityTable) :
        \E alt \in PriorityTable[i].alternatives : \A k \in alt : contains(desc, k) }

TableLabel(desc) ==
    IF RulesMet(desc) = {} THEN "Other AI Service"
    ELSE PriorityTable[CHOOSE i \in RulesMet(desc) : \A j \in RulesMet(desc) : i <= j].label

\* C7: the label generate_summary assigns is the label of the lowest-numbered rule of
\* the priority table that the uppercased description satisfies, 'Other AI Service'
\* when it satisfies none; a description with STRIPE, Z.AI and GOOGLE (and no
\* signature of rules 1 to 6) resolves to 'Z.AI Service'.
C7_SummaryLabelFollowsTable ==
    (stage = "summary" /\ outcome = "counted") =>
        LET desc == upper(row.description)
        IN  /\ label = TableLabel(desc)
            /\ (/\ contains(desc, STRIPE) /\ contains(desc, Z_DOT_AI) /\ contains(desc, GOOGLE)
                /\ RulesMet(desc) \cap (1..6) = {}) => label = "Z.AI Service"

\* generate_summary has labelled a description that satisfies rules 7 and 8 at once
C7_Witness ==
    /\ stage = "summary"
    /\ outcome = "counted"
    /\ RulesMet(upper(row.description)) = {7, 8}
    /\ label = "Z.AI Service"

\* C8: the label format_for_google_sheets assigns is the label of the lowest-numbered
\* rule of the same table that the uppercased description satisfies, and so agrees
\* with the label generate_summary gives that description.
C8_SheetsLabelFollowsTable ==
    (stage = "sheets" /\ outcome = "kept") =>
        /\ label = TableLabel(upper(row.description))
        /\ label = summary_service(upper(row.description))

\* the amount, thousands separators removed, is a decimal number greater than zero
StrictlyPositive(text) ==
    LET t    == strip(remove_char(text, ","))
        body == IF t # << >> /\ Head(t) = "+" THEN Tail(t) ELSE t
    IN  /\ \A i \in 1..Len(body) : body[i] \in Digit \cup {"."}
        /\ Cardinality({i \in 1..Len(body) : body[i] = "."}) <= 1
        /\ \E i \in 1..Len(body) : body[i] \in Digit \ {"0"}

\* C9: filter_ai_transactions treats a row as AI-related exactly when its uppercased
\* description satisfies a condition of the priority table (rules 7 and 8: both
\* substrings, in any order; KIE.AI and Z.AI literal): no row satisfying none is
\* kept, and every row that satisfies one and has a positive amount is kept.
C9_FilterFollowsTable ==
    stage = "filter" =>
        LET met == RulesMet(upper(row.description)) # {}
        IN  /\ outcome = "kept" => met
            /\ (met /\ StrictlyPositive(row.amount)) => outcome = "kept"

\* C10: every record the mode-A filters keep (filter_ai_transactions,
\* format_for_google_sheets) has an amount that, thousands separators removed, is
\* strictly greater than zero; zero and negative amounts are never kept.
C10_KeptAmountsPositive ==
    (stage \in {"filter", "sheets"} /\ outcome = "kept") => StrictlyPositive(row.amount)

\* filter_ai_transactions has kept a row whose amount has a thousands separator
C10_Witness ==
    /\ stage = "filter"
    /\ outcome = "kept"
    /\ contains(row.amount, <<",">>)

-----------------------------------------------------------------------------
(* The aggregators: ai_workflow.generate_summary and                       *)
(* ai_workflow_brain.save_and_summarize                                    *)

\* most records in a list handed to an aggregator
MaxRecords == 3

\* An amount float() returned, in hundredths.  The scripts add binary floats and
\* print them with two decimals; the sample amounts have at most two decimals, and
\* the totals are kept here as the exact number of hundredths that is printed.
Hundredths(a) == a.num * Pow10(2 - a.scale)

\* mutant: a new bucket starts from the amount, an old one is overwritten by it
add_to_bucket_overwrite(totals, service, amount) ==
    LET old == IF service \in DOMAIN totals THEN totals[service]
               ELSE [count |-> 0, total |-> 0]
    IN  [s \in DOMAIN totals \cup {service} |->
            IF s = service THEN [count |-> old.count + 1, total |-> amount]
            ELSE totals[s]]

\* `if service not in d: d[service] = {'count': 0, 'total': 0}`, then count += 1 and
\* total += amount
add_to_bucket(totals, service, amount) ==
    LET old == IF service \in DOMAIN totals THEN totals[service]
               ELSE [count |-> 0, total |-> 0]
    IN  [s \in DOMAIN totals \cup {service} |->
            IF s = service THEN [count |-> old.count + 1, total |-> old.total + amount]
            ELSE totals[s]]

\* generate_summary: the body of its loop for one row (float is not guarded here)
summary_body(totals, grand, r) ==
    LET desc    == upper(r.description)
        amount  == Hundredths(parse_amount(r.amount))
        service == summary_service(desc)
    IN  [service_totals |-> add_to_bucket(totals, service, amount),
         total_amount |-> grand + amount]

\* save_and_summarize: the body of its loop for one record; float raising leaves
\* everything as it was
brain_summary_body(totals, grand, t) ==
    LET a == parse_amount(t.amount)
    IN  IF a.ok
        THEN [service_totals |-> add_to_bucket(totals, t.service, Hundredths(a)),
              total_amount |-> grand + Hundredths(a)]
        ELSE [service_totals |-> totals, total_amount |-> grand]

\* sum(d['count'] for d in totals.values())
RECURSIVE sum_counts(_)
sum_counts(totals) ==
    IF DOMAIN totals = {} THEN 0
    ELSE LET s == CHOOSE x \in DOMAIN totals : TRUE
         IN  totals[s].count + sum_counts([x \in DOMAIN totals \ {s} |-> totals[x]])

\* rows filter_ai_transactions may have kept: the only lists main hands to generate_summary
SummaryRows ==
    { r \in { [transaction_date |-> <<"1","9","/","0","5","/","2","5">>, description |-> d, amount |-> a] :
                d \in { <<"A","n","t","h","r","o","p","i","c">>, <<"O","P","E","N","R","O","U","T","E","R"," ","A","N","T","H","R","O","P","I","C">>, <<"K","I","E","X","A","I">>, <<"S","H","O","P","E","E">> },
                a \in { <<"1","8","2",".","7","0">>, <<"1",",","2","3","4",".","5","0">>, <<"-","5",".","8","0">> } } :
        filter_row(r) = "kept" }

\* records extract_and_identify_ai_transactions may have emitted
BrainRecords ==
    { [statement_id |-> SampleStatement, page |-> SamplePage,
       transaction_date |-> <<"1","9","/","0","5","/","2","5">>, posting_date |-> <<"2","0","/","0","5","/","2","5">>,
       description |-> <<"A","N","T","H","R","O","P","I","C">>, amount |-> a, service |-> s] :
        a \in { <<"1",",","2","3","4",".","5","0">>, <<"-","5",".","8","0">>, <<"n","/","a">> },
        s \in { <<"A","n","t","h","r","o","p","i","c"," ","A","I">>, <<"O","p","e","n","R","o","u","t","e","r"," ","A","I">> } }

InitAggregate ==
    /\ \/ /\ agg_script = "workflow"
          /\ agg_transactions \in UNION { [1..n -> SummaryRows] : n \in 1..MaxRecords }
       \/ /\ agg_script = "brain"
          /\ agg_transactions \in UNION { [1..n -> BrainRecords] : n \in 0..MaxRecords }
    /\ agg_pos = 1
    /\ service_totals = << >>
    /\ total_amount = 0
    /\ total_count = 0
    /\ agg_pc = "loop"
    /\ IdleParse /\ IdleDedup /\ IdleClassify /\ IdleSheets /\ IdleNames /\ IdleRun

AggregateFrame ==
    UNCHANGED <<agg_script, agg_transactions, parseVars, dedupVars, classifyVars,
                sheetVars, nameVars, runVars>>

\* generate_summary: one iteration of `for row in ai_transactions`
SummaryIterate ==
    /\ agg_script = "workflow"
    /\ agg_pc = "loop"
    /\ agg_pos <= Len(agg_transactions)
    /\ LET r == summary_body(service_totals, total_amount, agg_transactions[agg_pos])
       IN  /\ service_totals' = r.service_totals
           /\ total_amount' = r.total_amount
    /\ agg_pos' = agg_pos + 1
    /\ UNCHANGED <<total_count, agg_pc>>
    /\ AggregateFrame

\* save_and_summarize with an empty list: `if not transactions: return`
BrainNothingToSave ==
    /\ agg_script = "brain"
    /\ agg_pc = "loop"
    /\ agg_transactions = << >>
    /\ agg_pc' = "returned"
    /\ UNCHANGED <<agg_pos, service_totals, total_amount, total_count>>
    /\ AggregateFrame

\* save_and_summarize: one iteration of `for t in transactions`
BrainIterate ==
    /\ agg_script = "brain"
    /\ agg_pc = "loop"
    /\ agg_pos <= Len(agg_transactions)
    /\ LET r == brain_summary_body(service_totals, total_amount, agg_transactions[agg_pos])
       IN  /\ service_totals' = r.service_totals
           /\ total_amount' = r.total_amount
    /\ agg_pos' = agg_pos + 1
    /\ UNCHANGED <<total_count, agg_pc>>
    /\ AggregateFrame

\* the loop is over: total_count is computed and the TOTAL line printed
PrintSummary ==
    /\ agg_pc = "loop"
    /\ agg_transactions # << >>
    /\ agg_pos > Len(agg_transactions)
    /\ total_count' = sum_counts(service_totals)
    /\ agg_pc' = "printed"
    /\ UNCHANGED <<agg_pos, service_totals, total_amount>>
    /\ AggregateFrame

NextAggregate == SummaryIterate \/ BrainNothingToSave \/ BrainIterate \/ PrintSummary

SpecAggregate == InitAggregate /\ [][NextAggregate]_vars

-----------------------------------------------------------------------------
(* Claims about aggregation, under SpecAggregate                           *)

\* the records the loop has processed
Processed == 1..(agg_pos - 1)

\* the label the i-th record is attributed to: for generate_summary the label of the
\* priority table, for save_and_summarize the record's own service label; a record
\* whose amount is no number is attributed to no label
Attributed(i, lbl) ==
    LET t == agg_transactions[i]
    IN  /\ parse_amount(t.amount).ok
        /\ IF agg_script = "workflow" THEN TableLabel(upper(t.description)) = lbl
           ELSE t.service = lbl

AttributedTo(lbl) == { i \in Processed : Attributed(i, lbl) }

RECURSIVE SumOfAmounts(_)
SumOfAmounts(indices) ==
    IF indices = {} THEN 0
    ELSE LET i == CHOOSE x \in indices : TRUE
         IN  Hundredths(parse_amount(agg_transactions[i].amount)) + SumOfAmounts(indices \ {i})

\* the labels a record of the run can be attributed to
AllLabels ==
    IF agg_script = "workflow"
    THEN { PriorityTable[i].label : i \in 1..Len(PriorityTable) } \cup { "Other AI Service" }
    ELSE { t.service : t \in BrainRecords }

C12_BucketsNeverDecrease ==
    [][\A l \in DOMAIN service_totals :
          /\ l \in DOMAIN service_totals'
          /\ service_totals'[l].count >= service_totals[l].count
          /\ service_totals'[l].total >= service_totals[l].total]_vars

-----------------------------------------------------------------------------
(* The contract of the record validator, under SpecParse                   *)

\* a signed decimal number: an optional sign, digits, at most one point
SignedDecimal(text) ==
    LET signed == text # << >> /\ Head(text) \in {"+", "-"}
        body   == IF signed THEN Tail(text) ELSE text
    IN  /\ \A i \in 1..Len(body) : body[i] \in Digit \cup {"."}
        /\ Cardinality({ i \in 1..Len(body) : body[i] = "." }) <= 1
        /\ \E i \in 1..Len(body) : body[i] \in Digit

\* C13: every record a pipe-line parser emits (each is appended to the run's
\* transaction list) has a transaction_date and a posting_date of the date-token shape
\* and an amount that, thousands separators removed, is a signed decimal number.
C13_ForwardedRecordsAreValid ==
    script \in PipeParsers =>
        \A i \in 1..Len(records) :
            /\ match_date(records[i].transaction_date)
            /\ match_date(records[i].posting_date)
            /\ SignedDecimal(remove_char(records[i].amount, ","))

-----------------------------------------------------------------------------
(* format_for_sheets.format_for_google_sheets, row by row                  *)

\* get_month_thai: months_thai[date_obj.month - 1]
months_thai ==
    << "January", "February", "March", "April", "May", "June",
       "July", "August", "September", "October", "November", "December" >>

\* the order of two datetime values: the sort key of line 86, as one number
date_key(date_str) ==
    LET d == parse_date(date_str)
    IN  IF d.ok THEN d.year * 10000 + d.month * 100 + d.day ELSE 10101

\* list.sort is stable: x goes behind every element whose key is not greater
RECURSIVE insert_by_date(_, _)
insert_by_date(sorted, x) ==
    IF sorted = << >> THEN <<x>>
    ELSE IF date_key(Head(sorted).date) <= date_key(x.date)
         THEN <<Head(sorted)>> \o insert_by_date(Tail(sorted), x)
         ELSE <<x>> \o sorted

\* ai_transactions.sort(key=lambda x: parse_date(x['date']) or datetime.min)
RECURSIVE sort_by_date(_)
sort_by_date(list) ==
    IF list = << >> THEN << >>
    ELSE insert_by_date(sort_by_date(SubSeq(list, 1, Len(list) - 1)), list[Len(list)])

\* the dictionary appended for a row that is kept
sheet_entry(r) ==
    LET amount == Hundredths(parse_amount(r.amount))
    IN  [date |-> r.transaction_date,
         month |-> months_thai[parse_date(r.transaction_date).month],
         description |-> sheets_row(r).label,
         price |-> amount, quantity |-> 1, total |-> amount]

\* rows of all_transactions.csv
SheetRows ==
    { [transaction_date |-> <<"1","9","/","0","5","/","2","5">>, description |-> <<"A","N","T","H","R","O","P","I","C">>, amount |-> <<"1","8","2",".","7","0">>],
      [transaction_date |-> <<"0","2","/","0","1","/","2","6">>, description |-> <<"O","p","e","n","r","o","u","t","e","r">>, amount |-> <<"1",",","2","3","4",".","5","0">>],
      [transaction_date |-> <<"0","1","/","0","3","/","2","5">>, description |-> <<"G","O","O","G","L","E"," ","C","L","O","U","D">>, amount |-> <<"1","8","2",".","7","0">>],
      [transaction_date |-> <<"1","9","/","0","5","/","2","0","2","5">>, description |-> <<"A","N","T","H","R","O","P","I","C">>, amount |-> <<"1","8","2",".","7","0">>],
      [transaction_date |-> <<"1","9","/","0","5","/","2","5">>, description |-> <<"R","U","N","P","O","D">>, amount |-> <<"A","M","O","U","N","T">>],
      [transaction_date |-> <<"1","9","/","0","5","/","2","5">>, description |-> <<"S","H","O","P","E","E">>, amount |-> <<"1","9","9",".","0","0">>],
      [transaction_date |-> <<"0","7","/","0","1","/","2","5">>, description |-> <<"A","N","T","H","R","O","P","I","C">>, amount |-> <<"-","8",",","8","5","1",".","3","3">>] }

InitSheets ==
    /\ sheet_input \in UNION { [1..n -> SheetRows] : n \in 0..MaxRecords }
    /\ sheet_pos = 1
    /\ sheet_ai = << >>
    /\ sheet_csv = << >>
    /\ sheet_pc = "reading"
    /\ IdleParse /\ IdleDedup /\ IdleClassify /\ IdleAggregate /\ IdleNames /\ IdleRun

SheetsFrame ==
    UNCHANGED <<sheet_input, parseVars, dedupVars, classifyVars, aggVars, nameVars, runVars>>

\* one iteration of `for row in reader`; float raising ends the run, as nothing
\* catches it
SheetsRead ==
    /\ sheet_pc = "reading"
    /\ sheet_pos <= Len(sheet_input)
    /\ LET r == sheet_input[sheet_pos]
           o == sheets_row(r).outcome
       IN  /\ sheet_pc' = IF o = "raised" THEN "raised" ELSE "reading"
           /\ sheet_ai' = IF o = "kept" THEN Append(sheet_ai, sheet_entry(r)) ELSE sheet_ai
    /\ sheet_pos' = sheet_pos + 1
    /\ UNCHANGED sheet_csv
    /\ SheetsFrame

\* the reader is exhausted: sort, then write ai_transactions_for_sheets.csv
SheetsWrite ==
    /\ sheet_pc = "reading"
    /\ sheet_pos > Len(sheet_input)
    /\ sheet_ai' = sort_by_date(sheet_ai)
    /\ sheet_csv' = sort_by_date(sheet_ai)
    /\ sheet_pc' = "written"
    /\ UNCHANGED sheet_pos
    /\ SheetsFrame

NextSheets == SheetsRead \/ SheetsWrite

SpecSheets == InitSheets /\ [][NextSheets]_vars

-----------------------------------------------------------------------------
(* Claims about the spreadsheet formatter, under SpecSheets                *)

\* C14: a row whose amount cannot be converted to a number is skipped and the
\* remaining rows are still processed: reading a row never ends the run, and the
\* file is written only after every row has been read.
C14_UnconvertibleRowSkipped ==
    /\ sheet_pc # "raised"
    /\ sheet_pc = "written" => sheet_pos = Len(sheet_input) + 1

\* the calendar date a date token of the line parser writes, as one number; the
\* year has two digits, or four
CalendarKey(token) ==
    LET day    == DigitsValue(SubSeq(token, 1, 2))
        month  == DigitsValue(SubSeq(token, 4, 5))
        four   == Len(token) >= 10 /\ token[9] \in Digit /\ token[10] \in Digit
        year   == IF four THEN DigitsValue(SubSeq(token, 7, 10))
                  ELSE 2000 + DigitsValue(SubSeq(token, 7, 8))
    IN  year * 10000 + month * 100 + day

\* the input rows that qualify: a vendor signature, an amount above zero, and a date
\* token the line parser accepts
Qualifying ==
    { i \in 1..Len(sheet_input) :
        /\ RulesMet(upper(sheet_input[i].description)) # {}
        /\ StrictlyPositive(sheet_input[i].amount)
        /\ match_date(sheet_input[i].transaction_date) }

\* the qualifying rows by ascending calendar date, rows of equal date in input order
RECURSIVE InDateOrder(_)
InDateOrder(indices) ==
    IF indices = {} THEN << >>
    ELSE LET first == CHOOSE i \in indices : \A j \in indices :
                          \/ CalendarKey(sheet_input[i].transaction_date)
                                 < CalendarKey(sheet_input[j].transaction_date)
                          \/ /\ CalendarKey(sheet_input[i].transaction_date)
                                   = CalendarKey(sheet_input[j].transaction_date)
                             /\ i <= j
         IN  <<first>> \o InDateOrder(indices \ {first})

\* C17: the file holds exactly one row per qualifying input row, whether its year has
\* two digits or four, each with quantity 1 and total equal to price, in ascending
\* calendar-date order, rows of equal date in input order.
C17_OneRowPerQualifyingRow ==
    sheet_pc = "written" =>
        LET expected == InDateOrder(Qualifying)
        IN  /\ Len(sheet_csv) = Len(expected)
            /\ \A k \in 1..Len(sheet_csv) :
                  /\ k <= Len(expected)
                  /\ sheet_csv[k].date = sheet_input[expected[k]].transaction_date
                  /\ sheet_csv[k].price = Hundredths(parse_amount(sheet_input[expected[k]].amount))
                  /\ sheet_csv[k].quantity = 1
                  /\ sheet_csv[k].total = sheet_csv[k].price

-----------------------------------------------------------------------------
(* Image names: written by the rasterizers, read back by the loops          *)

\* most pages of a document
MaxPages == 12

\* str(n) for n >= 0
RECURSIVE str_int(_)
str_int(n) ==
    IF n < 10 THEN <<DigitSeq[n + 1]>>
    ELSE str_int(n \div 10) \o <<DigitSeq[(n % 10) + 1]>>

\* f"{pdf_name}_page_{page_num + 1}.jpg"
image_name(name, page) == name \o <<"_","p","a","g","e","_">> \o str_int(page + 1) \o <<".","j","p","g">>

\* Path(name).stem: the name without its last suffix
stem(name) ==
    LET dots == { i \in 2..Len(name) : name[i] = "." }
    IN  IF dots = {} \/ name[Len(name)] = "." THEN name
        ELSE SubSeq(name, 1, (CHOOSE i \in dots : \A j \in dots : j <= i) - 1)

\* str.replace(p, ''): every occurrence, left to right
RECURSIVE remove_substring(_, _)
remove_substring(s, p) ==
    IF s = << >> THEN << >>
    ELSE IF startswith(s, p) THEN remove_substring(SubSeq(s, Len(p) + 1, Len(s)), p)
    ELSE <<Head(s)>> \o remove_substring(Tail(s), p)

\* re.match(r'(\d{4}-\d{2}-\d{2})_page_(\d+)', s), and with suffix = ".jpg" the
\* expression of batch_extract_all, r'(\d{4}-\d{2}-\d{2})_page_(\d+)\.jpg'
match_image_name(s, suffix) ==
    LET last == RunEnd(s, 17, Digit)
        ok   == /\ \A k \in {1, 2, 3, 4, 6, 7, 9, 10} : At(s, k) \in Digit
                /\ At(s, 5) = "-" /\ At(s, 8) = "-"
                /\ Len(s) >= 16 /\ SubSeq(s, 11, 16) = <<"_","p","a","g","e","_">>
                /\ last >= 17
                /\ startswith(SubSeq(s, last + 1, Len(s)), suffix)
    IN  IF ok THEN [ok |-> TRUE, g1 |-> SubSeq(s, 1, 10), g2 |-> SubSeq(s, 17, last)]
        ELSE [ok |-> FALSE, g1 |-> << >>, g2 |-> << >>]

\* batch_extract_all.main: statement_id and page_num from the file name
batch_statement_page(img_file) ==
    LET match == match_image_name(img_file, <<".","j","p","g">>)
    IN  IF match.ok THEN [statement_id |-> match.g1, page |-> match.g2]
        ELSE [statement_id |-> remove_substring(img_file, <<".","j","p","g">>), page |-> <<"1">>]

\* ai_workflow.extract_all_transactions and ai_workflow_brain.process_all_images:
\* statement_id and page_num from the stem of the path
workflow_statement_page(img_path) ==
    LET filename == stem(img_path)
        match    == match_image_name(filename, << >>)
    IN  IF match.ok THEN [statement_id |-> match.g1, page |-> match.g2]
        ELSE [statement_id |-> filename, page |-> <<"1">>]

\* document identifiers: stems of PDF file names
DocumentIds ==
    { <<"2","5","1","1","-","2","5","-","0","1">>, <<"2","0","2","5","-","0","1","-","0","7">>, <<"s","t","a","t","e","m","e","n","t">>, <<"2","5","1","1","-","2","5","-","0","1","-","c","o","p","y">>, <<"K","T","C","_","2","0","2","5","-","0","1","-","0","7">>,
      <<"2","0","2","5","-","1","-","7">> }

InitNames ==
    /\ pdf_name \in DocumentIds
    /\ page_index \in 0..(MaxPages - 1)
    /\ jpeg_filename = << >>
    /\ name_script = "none"
    /\ name_parsed = << >>
    /\ IdleParse /\ IdleDedup /\ IdleClassify /\ IdleAggregate /\ IdleSheets /\ IdleRun

NamesFrame ==
    UNCHANGED <<pdf_name, page_index, parseVars, dedupVars, classifyVars, aggVars,
                sheetVars, runVars>>

\* the rasterizer saves the page
SavePage ==
    /\ jpeg_filename = << >>
    /\ jpeg_filename' = image_name(pdf_name, page_index)
    /\ UNCHANGED <<name_script, name_parsed>>
    /\ NamesFrame

\* batch_extract_all.main reads the name
BatchReadName ==
    /\ jpeg_filename # << >>
    /\ name_script = "none"
    /\ name_script' = "batch"
    /\ name_parsed' = batch_statement_page(jpeg_filename)
    /\ UNCHANGED jpeg_filename
    /\ NamesFrame

\* ai_workflow.extract_all_transactions reads the name
WorkflowReadName ==
    /\ jpeg_filename # << >>
    /\ name_script = "none"
    /\ name_script' = "workflow"
    /\ name_parsed' = workflow_statement_page(jpeg_filename)
    /\ UNCHANGED jpeg_filename
    /\ NamesFrame

\* ai_workflow_brain.process_all_images reads the name
BrainReadName ==
    /\ jpeg_filename # << >>
    /\ name_script = "none"
    /\ name_script' = "brain"
    /\ name_parsed' = workflow_statement_page(jpeg_filename)
    /\ UNCHANGED jpeg_filename
    /\ NamesFrame

NextNames == SavePage \/ BatchReadName \/ WorkflowReadName \/ BrainReadName

SpecNames == InitNames /\ [][NextNames]_vars

\* C18: the name d_page_n.jpg the rasterizer wrote is read back by each loop as
\* statement_id = d and page = n, for every document identifier d and page n.
C18_NameRoundTrip ==
    name_script # "none" =>
        /\ name_parsed.statement_id = pdf_name
        /\ AllDigits(name_parsed.page)
        /\ DigitsValue(name_parsed.page) = page_index + 1

-----------------------------------------------------------------------------
(* The end-to-end runs: batch_extract_all.main, ai_workflow.main and        *)
(* ai_workflow_brain.main                                                   *)

\* most documents in the input directory; each sample document has one page
MaxDocs == 2

\* str.endswith
endswith(s, p) == Len(s) >= Len(p) /\ SubSeq(s, Len(s) - Len(p) + 1, Len(s)) = p

\* the characters of the sample file names, in code-point order
CharOrder == <<"-",".","0","1","2","3","4","5","6","7","8","9","_","a","d","e","f","g","j","n","o","p","s","t","x">>

CharRank(c) == CHOOSE i \in 1..Len(CharOrder) : CharOrder[i] = c

\* a < b for str
RECURSIVE text_before(_, _)
text_before(a, b) ==
    IF b = << >> THEN FALSE
    ELSE IF a = << >> THEN TRUE
    ELSE IF Head(a) = Head(b) THEN text_before(Tail(a), Tail(b))
    ELSE CharRank(Head(a)) < CharRank(Head(b))

\* sorted(names), for a set of names
RECURSIVE sorted(_)
sorted(names) ==
    IF names = {} THEN << >>
    ELSE LET first == CHOOSE n \in names : \A o \in names \ {n} : text_before(n, o)
         IN  <<first>> \o sorted(names \ {first})

\* convert_pdfs_to_images: the image of the one page of each PDF of the directory, in
\* the order of the sorted file names; [] when the directory has no PDF
RECURSIVE pages_of(_)
pages_of(pdf_files) ==
    IF pdf_files = << >> THEN << >>
    ELSE <<image_name(stem(Head(pdf_files)), 0)>> \o pages_of(Tail(pdf_files))

convert_pdfs_to_images(input_dir) ==
    pages_of(sorted({ f \in input_dir : endswith(f, <<".","p","d","f">>) }))

\* mutant: main goes on without images
goes_on_without_images(imgs) == FALSE

\* main: `if not images: ... return`
no_images(imgs) == imgs = << >>

\* What subprocess.run did: it returned with the tool's stdout, or raised
\* TimeoutExpired or another exception; what the tool had written by then is lost
\* with the exception.
ToolOutcomes ==
    { [kind |-> "returned", stdout |-> t] :
        t \in { <<"1","9","/","0","5","/","2","5","|","2","0","/","0","5","/","2","5","|","A","N","T","H","R","O","P","I","C"," ","U","S","D"," ","5",".","3","5","|","1","8","2",".","7","0","|","A","n","t","h","r","o","p","i","c"," ","A","I">>,
                <<"1","9","/","0","5","/","2","5","|","2","0","/","0","5","/","2","5","|","O","P","E","N","R","O","U","T","E","R","|","n","/","a","|","O","p","e","n","R","o","u","t","e","r"," ","A","I">>,
                <<"N","O","_","T","R","A","N","S","A","C","T","I","O","N","S">> } }
    \cup { [kind |-> "timeout", stdout |-> <<"1","9","/","0","5","/","2","5","|","2","0","/","0","5","/","2","5","|","A","N","T","H","R","O","P","I","C"," ","U","S","D"," ","5",".","3","5","|","1","8","2",".","7","0","|","A","n","t","h","r","o","p","i","c"," ","A","I">>],
           [kind |-> "error", stdout |-> << >>] }

\* mutant: the output captured before the exception is parsed all the same
records_despite_failure(completed, rs) == rs

\* the `except` branches: an image whose call raised has no records
records_unless_raised(completed, rs) == IF completed.kind = "returned" THEN rs ELSE << >>

\* extract_transactions_from_image: the cleaned stdout, or an ERROR text
extract_transactions_from_image(completed) ==
    IF completed.kind = "returned" THEN clean_output(completed.stdout)
    ELSE IF completed.kind = "timeout" THEN <<"E","R","R","O","R",":"," ","T","i","m","e","o","u","t">>
    ELSE <<"E","R","R","O","R",":"," ","f","a","i","l","e","d">>

\* deduplicate_transactions, all iterations
RECURSIVE dedup_loop(_, _, _)
dedup_loop(ts, sn, uq) ==
    IF ts = << >> THEN uq
    ELSE LET r == dedup_body(sn, uq, Head(ts))
         IN  dedup_loop(Tail(ts), r.seen, r.unique)

deduplicate_transactions(ts) == dedup_loop(ts, {}, << >>)

\* the header row of the transaction CSV
csv_header ==
    << "Statement ID", "Page", "Transaction Date", "Posting Date", "Description",
       "Amount (THB)" >>

\* writer.writerow([...]) for one record
csv_row(t) ==
    <<t.statement_id, t.page, t.transaction_date, t.posting_date, t.description, t.amount>>

csv_rows(ts) == [i \in 1..Len(ts) |-> csv_row(ts[i])]

\* csv.DictReader: a row as a mapping from the header's names
dict_row(fields) ==
    [h \in { csv_header[k] : k \in 1..Len(csv_header) } |->
        fields[CHOOSE k \in 1..Len(csv_header) : csv_header[k] = h]]

\* the columns the loops of ai_workflow read from a DictReader row
row_of(d) ==
    [transaction_date |-> d["Transaction Date"], description |-> d["Description"],
     amount |-> d["Amount (THB)"]]

\* filter_ai_transactions: the rows of the file that its loop keeps
RECURSIVE filter_ai_transactions(_)
filter_ai_transactions(lines) ==
    IF lines = << >> THEN << >>
    ELSE LET d == dict_row(Head(lines))
         IN  (IF filter_row(row_of(d)) = "kept" THEN <<d>> ELSE << >>)
             \o filter_ai_transactions(Tail(lines))

\* csv.DictWriter.writerows: the values in the order of the keys
dict_rows(ds) == [i \in 1..Len(ds) |-> [k \in 1..Len(csv_header) |-> ds[i][csv_header[k]]]]

\* generate_summary, all iterations, and the TOTAL line
RECURSIVE summary_loop(_, _, _)
summary_loop(rows, totals, grand) ==
    IF rows = << >>
    THEN [service_totals |-> totals, total_amount |-> grand, total_count |-> sum_counts(totals)]
    ELSE LET r == summary_body(totals, grand, row_of(Head(rows)))
         IN  summary_loop(Tail(rows), r.service_totals, r.total_amount)

generate_summary(rows) == summary_loop(rows, << >>, 0)

\* save_and_summarize, all iterations of its summary loop, and the TOTAL line
RECURSIVE brain_summary_loop(_, _, _)
brain_summary_loop(ts, totals, grand) ==
    IF ts = << >>
    THEN [service_totals |-> totals, total_amount |-> grand, total_count |-> sum_counts(totals)]
    ELSE LET r == brain_summary_body(totals, grand, Head(ts))
         IN  brain_summary_loop(Tail(ts), r.service_totals, r.total_amount)

\* writer.writerow([...]) of save_and_summarize
brain_csv_rows(ts) ==
    [i \in 1..Len(ts) |->
        <<ts[i].statement_id, ts[i].page, ts[i].transaction_date, ts[i].posting_date,
          ts[i].description, ts[i].service, ts[i].amount>>]

\* open(name, 'w') and the rows written: the directory afterwards
write_file(files, name, lines) ==
    [f \in DOMAIN files \cup {name} |-> IF f = name THEN lines ELSE files[f]]

\* os.remove(name)
remove_file(files, name) == [f \in DOMAIN files \ {name} |-> files[f]]

\* the sample documents, their page images, and a file that is neither
PdfFile(i) == <<"2","5","1">> \o str_int(i) \o <<"-","2","5","-","0","1",".","p","d","f">>

JpegFile(i) == image_name(<<"2","5","1">> \o str_int(i) \o <<"-","2","5","-","0","1">>, 0)

OtherFile == <<"n","o","t","e","s",".","t","x","t">>

TempCsv == "all_transactions_temp.csv"

OutputCsv == "ai_transactions.csv"

BatchCsv == "all_transactions.csv"

InitRun ==
    /\ run_script \in {"batch", "workflow", "brain"}
    /\ directory \in SUBSET ({ IF run_script = "batch" THEN JpegFile(i) ELSE PdfFile(i) :
                                 i \in 1..MaxDocs } \cup {OtherFile})
    /\ images = << >>
    /\ idx = 1
    /\ run_pc = "start"
    /\ all_transactions = << >>
    /\ events = << >>
    /\ csv = << >>
    /\ ai_transactions = << >>
    /\ summary = << >>
    /\ IdleParse /\ IdleDedup /\ IdleClassify /\ IdleAggregate /\ IdleSheets /\ IdleNames

RunFrame ==
    UNCHANGED <<run_script, directory, parseVars, dedupVars, classifyVars, aggVars,
                sheetVars, nameVars>>

ToolCalled(completed) == [kind |-> "call", image |-> idx, outcome |-> completed.kind]

Slept == [kind |-> "sleep", image |-> idx, outcome |-> "none"]

\* batch_extract_all.main: all_images = sorted(the .jpg files of image_dir)
ListImages ==
    /\ run_script = "batch"
    /\ run_pc = "start"
    /\ images' = sorted({ f \in directory : endswith(f, <<".","j","p","g">>) })
    /\ run_pc' = "loop"
    /\ UNCHANGED <<idx, all_transactions, events, csv, ai_transactions, summary>>
    /\ RunFrame

\* ai_workflow.main and ai_workflow_brain.main, step 1, and the return without images
ConvertPdfs ==
    /\ run_script \in {"workflow", "brain"}
    /\ run_pc = "start"
    /\ images' = convert_pdfs_to_images(directory)
    /\ run_pc' = IF no_images(images') THEN "done" ELSE "loop"
    /\ UNCHANGED <<idx, all_transactions, events, csv, ai_transactions, summary>>
    /\ RunFrame

\* batch_extract_all.main: one image, up to the `continue` or to the delay
BatchCall ==
    /\ run_script = "batch"
    /\ run_pc = "loop"
    /\ idx <= Len(images)
    /\ \E completed \in ToolOutcomes :
          LET name   == batch_statement_page(images[idx])
              result == extract_transactions_from_image(completed)
          IN  /\ events' = Append(events, ToolCalled(completed))
              /\ IF startswith(result, ERROR) \/ result = NO_TRANSACTIONS
                 THEN /\ idx' = idx + 1
                      /\ UNCHANGED <<run_pc, all_transactions>>
                 ELSE /\ all_transactions' = all_transactions
                              \o parse_transactions(result, name.statement_id, name.page)
                      /\ run_pc' = "sleep"
                      /\ UNCHANGED idx
    /\ UNCHANGED <<images, csv, ai_transactions, summary>>
    /\ RunFrame

\* ai_workflow.extract_all_transactions: one image, up to the delay
WorkflowCall ==
    /\ run_script = "workflow"
    /\ run_pc = "loop"
    /\ idx <= Len(images)
    /\ \E completed \in ToolOutcomes :
          LET name == workflow_statement_page(images[idx])
          IN  /\ events' = Append(events, ToolCalled(completed))
              /\ all_transactions' = all_transactions \o
                     records_unless_raised(completed,
                         extract_transactions_with_opencode(completed.stdout,
                                                            name.statement_id, name.page))
    /\ run_pc' = "sleep"
    /\ UNCHANGED <<images, idx, csv, ai_transactions, summary>>
    /\ RunFrame

\* ai_workflow_brain.process_all_images: one image, up to the delay
BrainCall ==
    /\ run_script = "brain"
    /\ run_pc = "loop"
    /\ idx <= Len(images)
    /\ \E completed \in ToolOutcomes :
          LET name == workflow_statement_page(images[idx])
          IN  /\ events' = Append(events, ToolCalled(completed))
              /\ all_transactions' = all_transactions \o
                     records_unless_raised(completed,
                         extract_and_identify_ai_transactions(completed.stdout,
                                                              name.statement_id, name.page))
    /\ run_pc' = "sleep"
    /\ UNCHANGED <<images, idx, csv, ai_transactions, summary>>
    /\ RunFrame

\* time.sleep(1) at the end of the loop body, and the next image
Sleep ==
    /\ run_pc = "sleep"
    /\ events' = Append(events, Slept)
    /\ idx' = idx + 1
    /\ run_pc' = "loop"
    /\ UNCHANGED <<images, all_transactions, csv, ai_transactions, summary>>
    /\ RunFrame

\* batch_extract_all.main after the loop: deduplicate, write all_transactions.csv
BatchSave ==
    /\ run_script = "batch"
    /\ run_pc = "loop"
    /\ idx > Len(images)
    /\ csv' = write_file(csv, BatchCsv, csv_rows(deduplicate_transactions(all_transactions)))
    /\ run_pc' = "done"
    /\ UNCHANGED <<images, idx, all_transactions, events, ai_transactions, summary>>
    /\ RunFrame

\* ai_workflow.extract_all_transactions after the loop: write the temporary CSV;
\* main returns when nothing was extracted
WorkflowSaveTemp ==
    /\ run_script = "workflow"
    /\ run_pc = "loop"
    /\ idx > Len(images)
    /\ csv' = write_file(csv, TempCsv, csv_rows(all_transactions))
    /\ run_pc' = IF all_transactions = << >> THEN "done" ELSE "filter"
    /\ UNCHANGED <<images, idx, all_transactions, events, ai_transactions, summary>>
    /\ RunFrame

\* ai_workflow.filter_ai_transactions: read the temporary CSV, write ai_transactions.csv
WorkflowFilter ==
    /\ run_pc = "filter"
    /\ ai_transactions' = filter_ai_transactions(csv[TempCsv])
    /\ csv' = write_file(csv, OutputCsv, dict_rows(ai_transactions'))
    /\ run_pc' = "summary"
    /\ UNCHANGED <<images, idx, all_transactions, events, summary>>
    /\ RunFrame

\* ai_workflow.main, step 4 and the clean-up
WorkflowSummary ==
    /\ run_pc = "summary"
    /\ summary' = IF ai_transactions # << >> THEN generate_summary(ai_transactions)
                  ELSE summary
    /\ csv' = remove_file(csv, TempCsv)
    /\ run_pc' = "done"
    /\ UNCHANGED <<images, idx, all_transactions, events, ai_transactions>>
    /\ RunFrame

\* ai_workflow_brain.save_and_summarize on the records of the loop
BrainSave ==
    /\ run_script = "brain"
    /\ run_pc = "loop"
    /\ idx > Len(images)
    /\ IF all_transactions = << >>
       THEN UNCHANGED <<csv, summary>>
       ELSE /\ csv' = write_file(csv, OutputCsv, brain_csv_rows(all_transactions))
            /\ summary' = brain_summary_loop(all_transactions, << >>, 0)
    /\ ai_transactions' = all_transactions
    /\ run_pc' = "done"
    /\ UNCHANGED <<images, idx, all_transactions, events>>
    /\ RunFrame

NextRun ==
    \/ ListImages \/ ConvertPdfs
    \/ BatchCall \/ WorkflowCall \/ BrainCall \/ Sleep
    \/ BatchSave \/ WorkflowSaveTemp \/ WorkflowFilter \/ WorkflowSummary \/ BrainSave

SpecRun == InitRun /\ [][NextRun]_vars

-----------------------------------------------------------------------------
(* Claims about the end-to-end runs, under SpecRun                         *)

\* the invocations of the tool for the i-th image
CallsFor(i) == { k \in 1..Len(events) : events[k].kind = "call" /\ events[k].image = i }

\* the call for the i-th image raised: it failed or timed out
Failed(i) == \E k \in CallsFor(i) : events[k].outcome \in {"timeout", "error"}

\* the statement the records of the i-th image carry
StatementOf(i) ==
    IF run_script = "batch" THEN batch_statement_page(images[i]).statement_id
    ELSE workflow_statement_page(images[i]).statement_id

LoopIsOver == run_pc \in {"filter", "summary", "done"}

FailedCallAdded ==
    /\ Len(events') = Len(events) + 1
    /\ events'[Len(events')].kind = "call"
    /\ events'[Len(events')].outcome \in {"timeout", "error"}

C16_NoPdfNoProcessing ==
    (run_script \in {"workflow", "brain"} /\ \A f \in directory : ~endswith(f, <<".","p","d","f">>)) =>
        /\ run_pc \in {"start", "done"}
        /\ \A k \in 1..Len(events) : events[k].kind # "call"
        /\ DOMAIN csv = {}

\* ai_workflow.main has finished on a directory that holds a file, but no PDF
C16_Witness ==
    /\ run_script = "workflow"
    /\ directory = {OtherFile}
    /\ run_pc = "done"

\* the key of the deduplicator, for a row handed to the summary
CountedKey(t) ==
    IF run_script = "workflow"
    THEN <<t["Transaction Date"], t["Posting Date"], t["Description"], t["Amount (THB)"]>>
    ELSE <<t.transaction_date, t.posting_date, t.description, t.amount>>

\* C19: in ai_workflow.main and ai_workflow_brain.main no two records counted in the
\* summary and written to ai_transactions.csv share transaction_date, posting_date,
\* description and amount, even when the tool returns the same line for two images.
C19_CountedRecordsAreDistinct ==
    (run_script \in {"workflow", "brain"} /\ run_pc = "done") =>
        \A i, j \in 1..Len(ai_transactions) :
            i < j => CountedKey(ai_transactions[i]) # CountedKey(ai_transactions[j])

\* C20: between any two successive invocations of the tool the delay is executed,
\* whatever the outcome of the earlier one.
C20_DelayBetweenCalls ==
    \A k \in 1..(Len(events) - 1) :
        events[k].kind = "call" => events[k + 1].kind = "sleep"

\* C21: in ai_workflow.main and ai_workflow_brain.main the transaction count on the
\* TOTAL line of the printed summary is the number of data rows written to
\* ai_transactions.csv in the same run.
C21_SummaryCountsTheCsvRows ==
    (run_script \in {"workflow", "brain"} /\ run_pc = "done" /\ summary # << >>) =>
        /\ OutputCsv \in DOMAIN csv
        /\ summary.total_count = Len(csv[OutputCsv])

====
